---------------------------- MODULE Spec2Model ----------------------------
(***************************************************************************)
(* Model of src/main.py (StuyTownScraper): the scroll loop that forces a   *)
(* lazily loaded page to materialise, the per-container extraction with    *)
(* its field fallbacks, the diff/merge of a snapshot against the known     *)
(* apartments, persistence, notification and the session lifecycle of the  *)
(* monitoring loop and of the baseline save.                               *)
(*                                                                         *)
(* Text is a sequence of one-character strings, so that prefix tests and   *)
(* concatenation are computed as Python computes them.  Python's None and  *)
(* a raised exception are the two markers None and Raises, which are no    *)
(* text (their single element is longer than one character).               *)
(***************************************************************************)
EXTENDS Integers, Sequences, FiniteSets, TLC

(***************************************************************************)
(* Bounds of the model.                                                    *)
(***************************************************************************)
MaxContainers == 2      \* containers on one rendered page
MaxCycles == 3          \* check cycles of one continuous run
MaxHeight == 3          \* distinct document heights a measurement can yield

(***************************************************************************)
(* Program constants.                                                      *)
(***************************************************************************)
STUYTOWN_URL == <<"h", "t", "t", "p", "s", ":", "/", "/", "w", "w", "w", ".", "s", "t", "u", "y", "t", "o", "w", "n", ".", "c", "o", "m", "/", "n", "y", "c", "-", "a", "p", "a", "r", "t", "m", "e", "n", "t", "s", "-", "f", "o", "r", "-", "r", "e", "n", "t", "/", "?", "O", "r", "d", "e", "r", "=", "l", "o", "w", "-", "p", "r", "i", "c", "e", "&", "B", "e", "d", "r", "o", "o", "m", "s", "=", "1", "-", "2">>
Origin == <<"h", "t", "t", "p", "s", ":", "/", "/", "w", "w", "w", ".", "s", "t", "u", "y", "t", "o", "w", "n", ".", "c", "o", "m">>
Unknown == <<"U", "n", "k", "n", "o", "w", "n">>
Http == <<"h", "t", "t", "p">>
ScrollCap == 50

None == <<"None">>
Raises == <<"raises">>

VARIABLES
    \* scroll_to_load_all
    scroll_pc, last_height, new_height, scroll_count,
    measures, prev_measure, last_measure, since_measure,
    \* extract_apartments
    ex_pc, ex_remaining, container, apartments,
    \* the scraper object, run / save_initial_apartments and one check cycle
    mode, pc, driver, known_apartments, apartments_file,
    current_apartments, new_apartments, clock, cycles, raising, result,
    \* what one cycle did, for the properties
    cycle_known, cycle_file, events, saved_known, saved_file, dropped,
    containers_seen, ended_by, email, save_failed, reported, undelivered,
    \* load_existing_apartments and the first diff after it
    load_pc, load_file, loaded, load_current, first_new

scrollVars == <<scroll_pc, last_height, new_height, scroll_count,
                measures, prev_measure, last_measure, since_measure>>
extractVars == <<ex_pc, ex_remaining, container, apartments>>
mainVars == <<mode, pc, driver, known_apartments, apartments_file,
              current_apartments, new_apartments, clock, cycles, raising, result,
              cycle_known, cycle_file, events, saved_known, saved_file, dropped,
              containers_seen, ended_by, email, save_failed, reported,
              undelivered>>
loadVars == <<load_pc, load_file, loaded, load_current, first_new>>
vars == <<scrollVars, extractVars, mainVars, loadVars>>

(***************************************************************************)
(* Python helpers.                                                         *)
(***************************************************************************)
\* truth value of an Optional[str]: None and "" are falsy
Truthy(v) == v # None /\ v # <<>>

\* str.startswith
StartsWith(s, prefix) ==
    Len(s) >= Len(prefix) /\ SubSeq(s, 1, Len(prefix)) = prefix

(***************************************************************************)
(* extract_apartments.  A container is the outcome of its five field       *)
(* reads: Raises when find_element / get_attribute raises, otherwise the   *)
(* value get_attribute returns (a text, or None).                          *)
(***************************************************************************)
BedroomsReads == {Raises, <<>>, <<"1">>}
AddressReads == {Raises, None, <<>>, <<"A">>, <<"B">>}
AvailabilityReads == {Raises, <<"n">>}
PriceReads == {Raises, None, <<>>, <<"$", "1">>}
HrefReads == {Raises, None, <<"/", "u">>, <<"h", "t", "t", "p", ":", "/", "/", "x">>}

Containers ==
    [bedrooms : BedroomsReads, address : AddressReads,
     availability : AvailabilityReads, price : PriceReads, href : HrefReads]

\* try: x = elem.get_attribute(..)  except Exception: x = fallback
ReadOr(read, fallback) == IF read = Raises THEN fallback ELSE read

\* lines 166-173
UnitUrl(href) ==
    IF href = Raises THEN STUYTOWN_URL
    ELSE IF Truthy(href) /\ ~StartsWith(href, Http) THEN Origin \o href
    ELSE href

\* lines 180-187 with a timestamp taken once, when the process started
Apartment_StartStamp(c, now) ==
    [address |-> ReadOr(c.address, <<>>),
     price |-> ReadOr(c.price, <<>>),
     bedrooms |-> ReadOr(c.bedrooms, Unknown),
     availability |-> ReadOr(c.availability, Unknown),
     discovered_at |-> 1,
     url |-> UnitUrl(c.href)]

\* lines 180-187
Apartment(c, now) ==
    [address |-> ReadOr(c.address, <<>>),
     price |-> ReadOr(c.price, <<>>),
     bedrooms |-> ReadOr(c.bedrooms, Unknown),
     availability |-> ReadOr(c.availability, Unknown),
     discovered_at |-> now,
     url |-> UnitUrl(c.href)]

\* the validation of line 176 without its price test
ExtractContainer_NoPriceTest(c, now) ==
    IF ~Truthy(ReadOr(c.address, <<>>))
    THEN <<>>
    ELSE <<Apartment(c, now)>>

\* lines 131-194 with one try around all five reads: a raising read skips
\* the container
ExtractContainer_OneTry(c, now) ==
    IF \/ Raises \in {c.bedrooms, c.address, c.availability, c.price, c.href}
       \/ ~Truthy(c.address) \/ ~Truthy(c.price)
    THEN <<>>
    ELSE <<Apartment(c, now)>>

\* the body of the for loop: what one container appends to apartments
ExtractContainer(c, now) ==
    IF ~Truthy(ReadOr(c.address, <<>>)) \/ ~Truthy(ReadOr(c.price, <<>>))
    THEN <<>>
    ELSE <<Apartment(c, now)>>

RECURSIVE ExtractLoop(_, _)
ExtractLoop(cs, now) ==
    IF cs = <<>> THEN <<>>
    ELSE ExtractContainer(Head(cs), now) \o ExtractLoop(Tail(cs), now)

\* extract_apartments on a page: found is FALSE when the presence wait times
\* out or find_elements raises (lines 196-197), otherwise containers is the
\* sequence of containers found
ExtractApartments(page, now) ==
    IF ~page.found THEN <<>> ELSE ExtractLoop(page.containers, now)

(***************************************************************************)
(* scroll_to_load_all.  scroll_pc is the position in the loop; a height    *)
(* measurement yields any value of Heights.  measures, prev_measure,       *)
(* last_measure and since_measure record what the rendering session saw:   *)
(* the number of measurements, the two most recent ones (0: none yet) and  *)
(* the commands issued since the most recent one.                          *)
(***************************************************************************)
Heights == 1..MaxHeight

ScrollIdle ==
    /\ scroll_pc = "idle" /\ last_height = 0 /\ new_height = 0
    /\ scroll_count = 0 /\ measures = 0 /\ prev_measure = 0
    /\ last_measure = 0 /\ since_measure = <<>>

\* lines 86-89: first measurement, scroll_count = 0
ScrollStart ==
    /\ scroll_pc = "start"
    /\ \E h \in Heights :
        /\ last_height' = h
        /\ last_measure' = h
    /\ prev_measure' = last_measure
    /\ measures' = measures + 1
    /\ since_measure' = <<>>
    /\ scroll_count' = 0
    /\ scroll_pc' = "scroll"
    /\ UNCHANGED new_height

\* lines 93-94: scroll to the bottom, count it
ScrollDown ==
    /\ scroll_pc = "scroll"
    /\ scroll_count' = scroll_count + 1
    /\ since_measure' = Append(since_measure, "scroll")
    /\ scroll_pc' = "sleep"
    /\ UNCHANGED <<last_height, new_height, measures, prev_measure, last_measure>>

\* line 97: time.sleep(2)
ScrollSettle ==
    /\ scroll_pc = "sleep"
    /\ since_measure' = Append(since_measure, "sleep")
    /\ scroll_pc' = "measure"
    /\ UNCHANGED <<last_height, new_height, scroll_count, measures,
                   prev_measure, last_measure>>

\* line 104 with <= in place of ==
ScrollStops_NotGrown(new, last, count) ==
    IF new <= last THEN TRUE ELSE count > ScrollCap

\* line 104 and line 111: the two exits of the loop, in the order of the code
ScrollStops(new, last, count) ==
    IF new = last THEN TRUE ELSE count > ScrollCap

\* lines 100-113: re-measure, compare, update last_height, check the cap
ScrollMeasure ==
    /\ scroll_pc = "measure"
    /\ \E h \in Heights :
        /\ new_height' = h
        /\ last_measure' = h
        /\ last_height' = IF h = last_height THEN last_height ELSE h
        /\ scroll_pc' = IF ScrollStops(h, last_height, scroll_count)
                        THEN "done" ELSE "scroll"
    /\ prev_measure' = last_measure
    /\ measures' = measures + 1
    /\ since_measure' = <<>>
    /\ UNCHANGED scroll_count

\* execute_script raises (lines 88, 93, 100): the exception leaves the loop
ScrollRaise ==
    /\ scroll_pc \in {"start", "scroll", "measure"}
    /\ scroll_pc' = "raised"
    /\ UNCHANGED <<last_height, new_height, scroll_count, measures,
                   prev_measure, last_measure, since_measure>>

(***************************************************************************)
(* extract_apartments, container by container.  ex_remaining is the number *)
(* of containers of the page not yet visited, container the one visited    *)
(* last, apartments the list built so far.                                 *)
(***************************************************************************)
NoContainer == [bedrooms |-> None, address |-> None, availability |-> None,
                price |-> None, href |-> None]

ExtractIdle ==
    /\ ex_pc = "idle" /\ ex_remaining = 0
    /\ container = NoContainer /\ apartments = <<>>

\* lines 117-128: the presence wait and find_elements
ExtractFind ==
    /\ ex_pc = "find"
    /\ \/ \E n \in 0..MaxContainers :
            /\ ex_remaining' = n
            /\ ex_pc' = "loop"
       \/ /\ ex_pc' = "returned"            \* lines 196-200: timeout, []
          /\ UNCHANGED ex_remaining
    /\ UNCHANGED <<container, apartments>>

\* lines 130-194: one iteration of the for loop
ExtractNext ==
    /\ ex_pc = "loop"
    /\ ex_remaining > 0
    /\ \E c \in Containers :
        /\ container' = c
        /\ apartments' = apartments \o ExtractContainer(c, clock)
    /\ ex_remaining' = ex_remaining - 1
    /\ UNCHANGED ex_pc

\* lines 199-200
ExtractReturn ==
    /\ ex_pc = "loop"
    /\ ex_remaining = 0
    /\ ex_pc' = "returned"
    /\ UNCHANGED <<ex_remaining, container, apartments>>

(***************************************************************************)
(* The state file and the known apartments.  A mapping is a function from  *)
(* addresses to apartments.  The file is absent, holds a serialized        *)
(* mapping, or holds a cut-off serialization.                              *)
(***************************************************************************)
EmptyMap == [a \in {} |-> a]
Absent == [kind |-> "absent"]
Partial == [kind |-> "partial"]
Json(m) == [kind |-> "json", data |-> m]
\* a file whose content parses but is no JSON object: an array of texts, a
\* text, or a value without a length (number, true, false, null)
JsonList(xs) == [kind |-> "list", data |-> xs]
JsonString(t) == [kind |-> "string", data |-> t]
JsonScalar == [kind |-> "scalar"]

\* the Python value json.load returns
PyDict(m) == [type |-> "dict", value |-> m]
PyList(xs) == [type |-> "list", value |-> xs]
PyStr(t) == [type |-> "str", value |-> t]

\* lines 44-57: the file is absent (line 57), json.load raises (line 54),
\* len(data) raises for a value without a length (line 50, caught at line
\* 52), or data is returned as it was parsed (line 51)
LoadExistingApartments(f) ==
    CASE f.kind = "absent" -> PyDict(EmptyMap)
      [] f.kind = "partial" -> PyDict(EmptyMap)
      [] f.kind = "scalar" -> PyDict(EmptyMap)
      [] f.kind = "json" -> PyDict(f.data)
      [] f.kind = "list" -> PyList(f.data)
      [] f.kind = "string" -> PyStr(f.data)

\* x in v: a key of a dict, an element of a list, a substring of a str
In(x, v) ==
    CASE v.type = "dict" -> x \in DOMAIN v.value
      [] v.type = "list" -> \E i \in DOMAIN v.value : v.value[i] = x
      [] v.type = "str" ->
            \E i \in 1..(Len(v.value) + 1) :
                /\ i + Len(x) - 1 <= Len(v.value)
                /\ SubSeq(v.value, i, i + Len(x) - 1) = x

\* line 265 keyed by the price instead of the address
Put_KeyedByPrice(m, k, v) ==
    [x \in DOMAIN m \cup {v.price} |-> IF x = v.price THEN v ELSE m[x]]

\* line 265 / 307 keeping the record already stored under the address
Put_KeepFirst(m, k, v) ==
    [x \in DOMAIN m \cup {k} |-> IF x \in DOMAIN m THEN m[x] ELSE v]

\* updated_apartments[address] = apt
Put(m, k, v) == [x \in DOMAIN m \cup {k} |-> IF x = k THEN v ELSE m[x]]

\* lines 261-265: the mapping built by the for loop
RECURSIVE UpdatedFrom(_, _)
UpdatedFrom(m, cur) ==
    IF cur = <<>> THEN m
    ELSE UpdatedFrom(Put(m, Head(cur).address, Head(cur)), Tail(cur))

\* line 261 starting from the known apartments: a union instead of a replacement
FreshMapping_FromKnown(known) == known

\* line 261: updated_apartments = {}
FreshMapping(known) == EmptyMap

\* line 271 left out: the known apartments stay what they were
UpdatedApartments_KeepKnown(cur, known) == known

\* lines 261-265 and 271: the mapping that replaces the known apartments
UpdatedApartments(cur, known) == UpdatedFrom(FreshMapping(known), cur)

\* line 267 without its `not`
IsNew_Inverted(apt, known) == apt.address \in DOMAIN known

\* line 267
IsNew(apt, known) == ~In(apt.address, PyDict(known))

\* lines 260-268: the list built by the for loop
NewApartments(cur, known) == SelectSeq(cur, LAMBDA apt : IsNew(apt, known))

Addresses(cur) == {cur[i].address : i \in DOMAIN cur}

(***************************************************************************)
(* Pages the monitoring loop sees: a rendered page is a sequence of at     *)
(* most MaxContainers containers, or a page on which no container shows    *)
(* up within the wait.                                                     *)
(***************************************************************************)
Listing(addr) ==
    [bedrooms |-> <<"1">>, address |-> addr, availability |-> <<"n">>,
     price |-> <<"$", "1">>, href |-> <<"/", "u">>]

PageContainers ==
    {Listing(<<"A">>), Listing(<<"B">>),
     [Listing(<<"B">>) EXCEPT !.bedrooms = Raises, !.href = None],
     [Listing(<<"A">>) EXCEPT !.address = Raises],
     [Listing(<<"A">>) EXCEPT !.address = None],
     [Listing(<<"A">>) EXCEPT !.address = <<>>],
     [Listing(<<"A">>) EXCEPT !.price = Raises],
     [Listing(<<"A">>) EXCEPT !.price = None],
     [Listing(<<"B">>) EXCEPT !.price = <<>>]}

Pages ==
    {[found |-> FALSE, containers |-> <<>>]} \cup
    {[found |-> TRUE, containers |-> cs] :
        cs \in UNION {[1..n -> PageContainers] : n \in 0..MaxContainers}}

\* the state file a process can find at start
StoredApartment(addr) ==
    [address |-> addr, price |-> <<"$", "1">>, bedrooms |-> <<"1">>,
     availability |-> <<"n">>, discovered_at |-> 0, url |-> Origin \o <<"/", "u">>]

InitialFiles ==
    {Absent, Json([a \in {<<"A">>} |-> StoredApartment(a)])}

(***************************************************************************)
(* run and save_initial_apartments.  pc is the statement about to run;     *)
(* events lists what the current cycle has done so far; cycle_known and    *)
(* cycle_file are the known apartments and the file at the start of the    *)
(* cycle, saved_known and saved_file their values right after the save;    *)
(* dropped is the set of addresses that were known, left the page and have *)
(* not been extracted since (up to the start of the current cycle).        *)
(* test_email sends its one message with no session and no cycle.          *)
(* ended_by is what ended the operation: a failed setup, a fault of the    *)
(* loop, an interrupt, an interrupt that cut driver.quit() short, or a     *)
(* driver.quit() that raised.                                              *)
(***************************************************************************)
\* no message was built in this cycle
NoEmail == [count |-> 0, body |-> <<>>]

MainIdle ==
    /\ mode = "none" /\ pc = "idle" /\ driver = "none"
    /\ known_apartments = EmptyMap /\ apartments_file = Absent
    /\ current_apartments = <<>> /\ new_apartments = <<>>
    /\ clock = 1 /\ cycles = 0 /\ raising = "none" /\ result = "running"
    /\ cycle_known = EmptyMap /\ cycle_file = Absent /\ events = <<>>
    /\ saved_known = EmptyMap /\ saved_file = Absent /\ dropped = {}
    /\ containers_seen = 0 /\ ended_by = "none" /\ email = NoEmail
    /\ save_failed = FALSE /\ reported = {} /\ undelivered = {}

\* __init__ (lines 39-42) and the choice of main (lines 358-363)
MainInit ==
    /\ mode \in {"run", "save_initial", "test_email"}
    /\ pc = (IF mode = "test_email" THEN "test" ELSE "setup")
    /\ driver = "none"
    /\ apartments_file \in InitialFiles
    /\ known_apartments = LoadExistingApartments(apartments_file).value
    /\ current_apartments = <<>> /\ new_apartments = <<>>
    /\ clock = 0 /\ cycles = 0 /\ raising = "none" /\ result = "running"
    /\ cycle_known = known_apartments /\ cycle_file = apartments_file
    /\ events = <<>>
    /\ saved_known = known_apartments /\ saved_file = apartments_file
    /\ dropped = {}
    /\ containers_seen = 0 /\ ended_by = "none" /\ email = NoEmail
    /\ save_failed = FALSE /\ reported = {} /\ undelivered = {}

Did(e) == \E i \in DOMAIN events : events[i] = e

\* a cycle begins: reset the cycle's locals, note the state it starts from.
\* clock is what datetime.now() (line 181) reads during the cycle: time has
\* passed since the cycle before
BeginCycle ==
    /\ cycles' = cycles + 1
    /\ clock' = clock + 1
    /\ current_apartments' = <<>>
    /\ new_apartments' = <<>>
    /\ events' = <<>>
    /\ containers_seen' = 0
    /\ cycle_known' = known_apartments
    /\ cycle_file' = apartments_file
    /\ dropped' = IF Did("merge")
                  THEN (dropped \cup DOMAIN cycle_known) \ Addresses(current_apartments)
                  ELSE dropped
    /\ email' = NoEmail
    /\ reported' = IF Did("merge")
                   THEN (reported \cap Addresses(current_apartments))
                            \cup Addresses(new_apartments)
                   ELSE reported
    /\ undelivered' = IF Did("merge")
                      THEN (undelivered \cap Addresses(current_apartments))
                            \cup (IF Did("send_fail")
                                  THEN Addresses(new_apartments) ELSE {})
                      ELSE undelivered

\* a cycle whose end ends the loop as well
AfterCycle_EndsLoop(m) == "finally"

\* where an exception caught by the cycle's handler leaves the operation:
\* line 282-283 returns to the loop of run, line 313-314 falls into finally
AfterCycle(m) == IF m = "run" THEN "sleep" ELSE "finally"

\* lines 271-280 with the notification placed before the save
CycleNext_NotifyFirst(at, m) ==
    CASE at = "merge" -> IF m = "run" THEN "notify" ELSE "save"
      [] at = "notify" -> "save"
      [] at = "save" -> AfterCycle(m)

\* the statement after `at` in the body of the cycle (lines 259-280 for
\* run, lines 306-311 for save_initial_apartments)
CycleNext(at, m) ==
    CASE at = "merge" -> "save"
      [] at = "save" -> IF m = "run" THEN "notify" ELSE AfterCycle(m)
      [] at = "notify" -> AfterCycle(m)

\* a caller without a handler for the failure of setup_driver
SetupFailureRaising_Uncaught(m) == "Exception"

\* the exception still propagating once the handlers of the caller have
\* seen the failure of setup_driver: `except Exception` (line 339 / 313)
\* catches it
SetupFailureRaising(m) == "none"

\* lines 68-82, called at line 330 / 290
SetupDriver ==
    /\ pc = "setup"
    /\ \/ /\ driver' = "open"
          /\ pc' = "get"
          /\ BeginCycle
          /\ UNCHANGED <<raising, ended_by>>
       \/ /\ pc' = "finally"              \* raise at line 82
          /\ raising' = SetupFailureRaising(mode)
          /\ ended_by' = "setup_fail"
          /\ UNCHANGED <<driver, cycles, current_apartments, new_apartments,
                         events, cycle_known, cycle_file, dropped, clock,
                         containers_seen, email, reported, undelivered>>
    /\ UNCHANGED <<mode, known_apartments, apartments_file,
                   result, saved_known, saved_file,
                   save_failed>>

\* line 246 / 293: driver.get
Navigate ==
    /\ pc = "get"
    /\ \/ pc' = "scroll"
       \/ pc' = AfterCycle(mode)          \* raises
    /\ UNCHANGED <<mode, driver, known_apartments, apartments_file,
                   current_apartments, new_apartments, clock, cycles, raising,
                   result, cycle_known, cycle_file, events, saved_known,
                   saved_file, dropped,
                   containers_seen,
                   ended_by, email, save_failed, reported, undelivered>>

\* line 250 / 297: scroll_to_load_all as the cycle sees it
Scroll ==
    /\ pc = "scroll"
    /\ \/ pc' = "extract"
       \/ pc' = AfterCycle(mode)          \* execute_script raises
    /\ UNCHANGED <<mode, driver, known_apartments, apartments_file,
                   current_apartments, new_apartments, clock, cycles, raising,
                   result, cycle_known, cycle_file, events, saved_known,
                   saved_file, dropped,
                   containers_seen,
                   ended_by, email, save_failed, reported, undelivered>>

\* line 255 / 302 without the guard
SkipCycle_Never(cur) == FALSE

\* line 255 / 302: if not current_apartments
SkipCycle(cur) == cur = <<>>

\* lines 253-257 / 300-304
Extract ==
    /\ pc = "extract"
    /\ \E page \in Pages :
        /\ current_apartments' = ExtractApartments(page, clock)
        /\ containers_seen' = Len(page.containers)
        /\ pc' = IF SkipCycle(current_apartments')
                 THEN AfterCycle(mode) ELSE "merge"
    /\ events' = Append(events, "extract")
    /\ UNCHANGED <<mode, driver, known_apartments, apartments_file, clock,
                   new_apartments, cycles, raising, result, cycle_known,
                   cycle_file, saved_known, saved_file, dropped,
                   ended_by, email, save_failed, reported, undelivered>>

\* lines 259-272 (run) / 306-308 (save_initial_apartments)
Merge ==
    /\ pc = "merge"
    /\ new_apartments' = IF mode = "run"
                         THEN NewApartments(current_apartments, known_apartments)
                         ELSE new_apartments
    /\ known_apartments' = UpdatedApartments(current_apartments, known_apartments)
    /\ events' = Append(events, "merge")
    /\ pc' = CycleNext("merge", mode)
    /\ UNCHANGED <<mode, driver, apartments_file, current_apartments, clock,
                   cycles, raising, result, cycle_known, cycle_file,
                   saved_known, saved_file, dropped,
                   containers_seen,
                   ended_by, email, save_failed, reported, undelivered>>

\* lines 59-66 with a write that reports success and leaves the file as it was
SaveApartments_Stale(f, apartments_, outcome) ==
    CASE outcome = "ok" -> f
      [] outcome = "open" -> f
      [] outcome = "write" -> Partial

\* lines 59-66, called at line 273 / 309: the file after the attempt.
\* "ok": written and closed; "open": open() raised, nothing written;
\* "write": the file was truncated by open() and the dump stopped part-way
SaveApartments(f, apartments_, outcome) ==
    CASE outcome = "ok" -> Json(apartments_)
      [] outcome = "open" -> f
      [] outcome = "write" -> Partial

Save ==
    /\ pc = "save"
    /\ \E outcome \in {"ok", "open", "write"} :
        /\ apartments_file' = SaveApartments(apartments_file, known_apartments, outcome)
        /\ events' = Append(events, IF outcome = "ok" THEN "save_ok" ELSE "save_fail")
        /\ save_failed' = (save_failed \/ outcome # "ok")
    /\ saved_known' = known_apartments
    /\ saved_file' = apartments_file'
    /\ pc' = CycleNext("save", mode)
    /\ UNCHANGED <<mode, driver, known_apartments, current_apartments,
                   new_apartments, clock, cycles, raising, result, cycle_known,
                   cycle_file, dropped,
                   containers_seen,
                   ended_by, email, reported, undelivered>>

\* line 204: if not new_apartments and not test_mode: return
Delivers(batch, test_mode) == ~(batch = <<>> /\ ~test_mode)

\* line 276: if new_apartments
HasNew(batch) == batch # <<>>

\* str() of a value inside an f-string
Render(v) == IF v = None THEN <<"N", "o", "n", "e">> ELSE v

\* lines 215-219: the lines of the body for one apartment
DigestEntry(apt) ==
    [address |-> Render(apt.address), price |-> Render(apt.price),
     bedrooms |-> Render(apt.bedrooms), discovered_at |-> apt.discovered_at,
     url |-> Render(apt.url)]

\* lines 214-219 adding each entry in front of the body
RECURSIVE DigestBody_Prepending(_)
DigestBody_Prepending(batch) ==
    IF batch = <<>> THEN <<>>
    ELSE Append(DigestBody_Prepending(Tail(batch)), DigestEntry(Head(batch)))

\* lines 213-219: body += ... for each apartment of the batch
RECURSIVE DigestBody(_)
DigestBody(batch) ==
    IF batch = <<>> THEN <<>>
    ELSE <<DigestEntry(Head(batch))>> \o DigestBody(Tail(batch))

\* lines 212-219: the count of the subject and the body
Digest(batch) == [count |-> Len(batch), body |-> DigestBody(batch)]

\* lines 209-210: the fixed subject and body of the test message, one
\* element per character; "U+1F9EA" is the single character with that code
\* point (the test-tube sign), "\n" a line feed
TestMessage ==
    [subject |->
        <<"U+1F9EA", " ", "S", "t", "u", "y", "T", "o", "w", "n", " ", "S",
          "c", "r", "a", "p", "e", "r", " ", "T", "e", "s", "t", " ", "E",
          "m", "a", "i", "l">>,
     body |->
        <<"T", "h", "i", "s", " ", "i", "s", " ", "a", " ", "t", "e", "s",
          "t", " ", "e", "m", "a", "i", "l", " ", "f", "r", "o", "m", " ",
          "y", "o", "u", "r", " ", "S", "t", "u", "y", "T", "o", "w", "n",
          " ", "a", "p", "a", "r", "t", "m", "e", "n", "t", " ", "s", "c",
          "r", "a", "p", "e", "r", ".", "\n", "\n", "I", "f", " ", "y",
          "o", "u", " ", "r", "e", "c", "e", "i", "v", "e", "d", " ", "t",
          "h", "i", "s", ",", " ", "e", "m", "a", "i", "l", " ", "n", "o",
          "t", "i", "f", "i", "c", "a", "t", "i", "o", "n", "s", " ", "a",
          "r", "e", " ", "w", "o", "r", "k", "i", "n", "g", " ", "c", "o",
          "r", "r", "e", "c", "t", "l", "y", "!">>]

\* lines 208-219: the message send_email_notification builds
Message(batch, test_mode) == IF test_mode THEN TestMessage ELSE Digest(batch)

\* lines 275-280 and send_email_notification (lines 202-238): the delivery
\* succeeds, or any of connect / starttls / login / sendmail raises and the
\* handler at line 237 logs it
Notify ==
    /\ pc = "notify"
    /\ IF HasNew(new_apartments) /\ Delivers(new_apartments, FALSE)
       THEN /\ email' = Message(new_apartments, FALSE)
            /\ \E sent \in {"send_ok", "send_fail"} : events' = Append(events, sent)
       ELSE /\ email' = email
            /\ events' = Append(events, "send_skip")
    /\ pc' = CycleNext("notify", mode)
    /\ UNCHANGED <<mode, driver, known_apartments, apartments_file,
                   current_apartments, new_apartments, clock, cycles, raising,
                   result, cycle_known, cycle_file, saved_known, saved_file,
                   dropped,
                   containers_seen,
                   ended_by, save_failed, reported, undelivered>>

\* lines 332-335: the sleep ends and the next cycle begins
Sleep ==
    /\ pc = "sleep"
    /\ cycles < MaxCycles
    /\ pc' = "get"
    /\ BeginCycle
    /\ UNCHANGED <<mode, driver, known_apartments, apartments_file,
                   raising, result, saved_known, saved_file,
                   ended_by, save_failed>>

\* no finally clause on the interrupt path
OnInterrupt_NoFinally(m) == "done"

\* where a KeyboardInterrupt raised inside the try leaves the operation:
\* the handler at line 337 (run) or none (save_initial_apartments), then
\* the finally clause in both
OnInterrupt(m) == "finally"

\* KeyboardInterrupt is not an Exception: no handler of the cycle catches it.
\* Inside setup_driver it arrives before line 78 has assigned self.driver,
\* or at line 79, when the session is already held
Interrupt ==
    /\ pc \in {"setup", "get", "scroll", "extract", "merge", "notify", "sleep"}
    /\ driver' \in IF pc = "setup" THEN {driver, "open"} ELSE {driver}
    /\ pc' = OnInterrupt(mode)
    /\ raising' = IF mode = "run" THEN "none" ELSE "KeyboardInterrupt"
    /\ ended_by' = "interrupt"
    /\ UNCHANGED <<mode, known_apartments, apartments_file,
                   current_apartments, new_apartments, clock, cycles, result,
                   cycle_known, cycle_file, events, saved_known, saved_file,
                   dropped,
                   containers_seen,
                   email, save_failed, reported, undelivered>>

\* KeyboardInterrupt inside save_apartments: before open() (line 62), after
\* it truncated the file (line 63), or at line 64, when the dump is complete
\* and the file closed
InterruptSave ==
    /\ pc = "save"
    /\ \/ /\ apartments_file' \in {apartments_file, Partial}
          /\ UNCHANGED <<events, saved_known, saved_file>>
       \/ /\ apartments_file' = SaveApartments(apartments_file, known_apartments, "ok")
          /\ events' = Append(events, "save_ok")
          /\ saved_known' = known_apartments
          /\ saved_file' = apartments_file'
    /\ pc' = OnInterrupt(mode)
    /\ raising' = IF mode = "run" THEN "none" ELSE "KeyboardInterrupt"
    /\ ended_by' = "interrupt"
    /\ UNCHANGED <<mode, driver, known_apartments, current_apartments,
                   new_apartments, clock, cycles, result, cycle_known,
                   cycle_file, dropped,
                   containers_seen,
                   email, save_failed, reported, undelivered>>

\* lines 334-335 raise an Exception: caught at line 339, the loop ends
LoopFault ==
    /\ mode = "run"
    /\ pc = "sleep"
    /\ pc' = "finally"
    /\ ended_by' = "loop_fault"
    /\ UNCHANGED <<mode, driver, known_apartments, apartments_file,
                   current_apartments, new_apartments, clock, cycles, raising,
                   result, cycle_known, cycle_file, events, saved_known,
                   saved_file, dropped,
                   containers_seen,
                   email, save_failed, reported, undelivered>>

\* line 342 / 316: if self.driver
HasDriver(d) == d # "none"

\* lines 341-344 / 315-318: the session, if there is one, is quit and the
\* operation ends as the try left it; or driver.quit() (line 343 / 317, in
\* no try of its own) raises: its exception replaces whatever was pending
\* and leaves the operation with the session not quit
Finally ==
    /\ pc = "finally"
    /\ \/ /\ driver' = IF HasDriver(driver) THEN "quit" ELSE driver
          /\ result' = IF raising = "none" THEN "returned" ELSE "raised"
          /\ UNCHANGED <<raising, ended_by>>
       \/ /\ HasDriver(driver)
          /\ driver' = driver
          /\ raising' = "Exception"
          /\ result' = "raised"
          /\ ended_by' = "quit_fail"
    /\ pc' = "done"
    /\ UNCHANGED <<mode, known_apartments, apartments_file,
                   current_apartments, new_apartments, clock, cycles,
                   cycle_known, cycle_file, events, saved_known, saved_file,
                   dropped,
                   containers_seen,
                   email, save_failed, reported, undelivered>>

\* KeyboardInterrupt once the body of the try is over and before the finally
\* clause: at line 311 after the save returned, at the return of line 304, or
\* inside a handler (lines 314, 338, 340).  No handler is left to catch it;
\* the finally clause still runs
InterruptHandler ==
    /\ pc = "finally"
    /\ raising = "none"
    /\ raising' = "KeyboardInterrupt"
    /\ ended_by' = "interrupt"
    /\ UNCHANGED <<mode, pc, driver, known_apartments, apartments_file,
                   current_apartments, new_apartments, clock, cycles, result,
                   cycle_known, cycle_file, events, saved_known, saved_file,
                   dropped, containers_seen, email, save_failed, reported,
                   undelivered>>

\* KeyboardInterrupt inside the finally clause (lines 342-344 / 316-318): the
\* operation raises; driver.quit() was cut short (ended_by notes it), or
\* there was nothing to quit (line 342), or the quit had finished (line 344)
InterruptFinally ==
    /\ pc = "finally"
    /\ \/ /\ HasDriver(driver)
          /\ driver' = driver
          /\ ended_by' = "interrupt_finally"
       \/ /\ driver' = IF HasDriver(driver) THEN "quit" ELSE driver
          /\ ended_by' = "interrupt"
    /\ pc' = "done"
    /\ raising' = "KeyboardInterrupt"
    /\ result' = "raised"
    /\ UNCHANGED <<mode, known_apartments, apartments_file,
                   current_apartments, new_apartments, clock, cycles,
                   cycle_known, cycle_file, events, saved_known, saved_file,
                   dropped, containers_seen, email, save_failed, reported,
                   undelivered>>

\* test_email (lines 320-323): send_email_notification(test_mode=True) with
\* no batch, no session and no cycle; a failing delivery is logged (line 237)
TestEmail ==
    /\ mode = "test_email"
    /\ pc = "test"
    /\ Delivers(<<>>, TRUE)
    /\ email' = Message(<<>>, TRUE)
    /\ \E sent \in {"send_ok", "send_fail"} : events' = Append(events, sent)
    /\ pc' = "done"
    /\ result' = "returned"
    /\ UNCHANGED <<driver, known_apartments, apartments_file,
                   current_apartments, new_apartments, clock, cycles, raising,
                   cycle_known, cycle_file, saved_known, saved_file, dropped,
                   containers_seen, ended_by, save_failed, reported,
                   undelivered, mode>>

\* KeyboardInterrupt during test_email, which has no try: before the message
\* went out, at line 233 after it did, or at line 238 while the handler logs
\* a failed delivery
InterruptTest ==
    /\ mode = "test_email"
    /\ pc = "test"
    /\ \/ UNCHANGED <<email, events>>
       \/ /\ email' = Message(<<>>, TRUE)
          /\ \E sent \in {"send_ok", "send_fail"} :
                events' = Append(events, sent)
    /\ pc' = "done"
    /\ raising' = "KeyboardInterrupt"
    /\ result' = "raised"
    /\ ended_by' = "interrupt"
    /\ UNCHANGED <<driver, known_apartments, apartments_file,
                   current_apartments, new_apartments, clock, cycles,
                   cycle_known, cycle_file, saved_known, saved_file, dropped,
                   containers_seen, save_failed, reported, undelivered, mode>>

(***************************************************************************)
(* load_existing_apartments on any state file, and the diff of the first   *)
(* check cycle against the value it returned.                              *)
(***************************************************************************)
LoadFiles ==
    InitialFiles \cup
    {Json(EmptyMap), Json([a \in {<<"A">>, <<"B">>} |-> StoredApartment(a)]),
     Partial, JsonScalar,
     JsonList(<<>>), JsonList(<< <<"A">> >>), JsonList(<< <<"A">>, <<"B">> >>),
     JsonString(<<>>), JsonString(<<"A">>), JsonString(<<"x", "B", "y">>)}

LoadIdle ==
    /\ load_pc = "idle" /\ load_file = Absent /\ loaded = PyDict(EmptyMap)
    /\ load_current = <<>> /\ first_new = <<>>

\* line 41: self.known_apartments = self.load_existing_apartments()
Load ==
    /\ load_pc = "start"
    /\ loaded' = LoadExistingApartments(load_file)
    /\ load_pc' = "loaded"
    /\ UNCHANGED <<load_file, load_current, first_new>>

\* lines 253-268 of the first cycle: the extraction and the loop of the diff
FirstDiff ==
    /\ load_pc = "loaded"
    /\ \E page \in Pages :
        /\ load_current' = ExtractApartments(page, clock)
        /\ ~SkipCycle(load_current')
        /\ first_new' = SelectSeq(load_current',
                                  LAMBDA apt : ~In(apt.address, loaded))
    /\ load_pc' = "diffed"
    /\ UNCHANGED <<load_file, loaded>>

(***************************************************************************)
(* Specifications.                                                         *)
(***************************************************************************)
Init == ScrollIdle /\ ExtractIdle /\ LoadIdle /\ MainInit

Next ==
    \/ SetupDriver /\ UNCHANGED <<scrollVars, extractVars, loadVars>>
    \/ Navigate /\ UNCHANGED <<scrollVars, extractVars, loadVars>>
    \/ Scroll /\ UNCHANGED <<scrollVars, extractVars, loadVars>>
    \/ Extract /\ UNCHANGED <<scrollVars, extractVars, loadVars>>
    \/ Merge /\ UNCHANGED <<scrollVars, extractVars, loadVars>>
    \/ Save /\ UNCHANGED <<scrollVars, extractVars, loadVars>>
    \/ Notify /\ UNCHANGED <<scrollVars, extractVars, loadVars>>
    \/ Sleep /\ UNCHANGED <<scrollVars, extractVars, loadVars>>
    \/ Interrupt /\ UNCHANGED <<scrollVars, extractVars, loadVars>>
    \/ InterruptSave /\ UNCHANGED <<scrollVars, extractVars, loadVars>>
    \/ LoopFault /\ UNCHANGED <<scrollVars, extractVars, loadVars>>
    \/ Finally /\ UNCHANGED <<scrollVars, extractVars, loadVars>>
    \/ InterruptHandler /\ UNCHANGED <<scrollVars, extractVars, loadVars>>
    \/ InterruptFinally /\ UNCHANGED <<scrollVars, extractVars, loadVars>>
    \/ TestEmail /\ UNCHANGED <<scrollVars, extractVars, loadVars>>
    \/ InterruptTest /\ UNCHANGED <<scrollVars, extractVars, loadVars>>

Spec == Init /\ [][Next]_vars

\* scroll_to_load_all alone
InitScroll ==
    /\ scroll_pc = "start" /\ last_height = 0 /\ new_height = 0
    /\ scroll_count = 0 /\ measures = 0 /\ prev_measure = 0
    /\ last_measure = 0 /\ since_measure = <<>>
    /\ ExtractIdle /\ MainIdle /\ LoadIdle

NextScroll ==
    \/ ScrollStart /\ UNCHANGED <<extractVars, mainVars, loadVars>>
    \/ ScrollDown /\ UNCHANGED <<extractVars, mainVars, loadVars>>
    \/ ScrollSettle /\ UNCHANGED <<extractVars, mainVars, loadVars>>
    \/ ScrollMeasure /\ UNCHANGED <<extractVars, mainVars, loadVars>>
    \/ ScrollRaise /\ UNCHANGED <<extractVars, mainVars, loadVars>>

SpecScroll == InitScroll /\ [][NextScroll]_vars

\* extract_apartments alone
InitExtract ==
    /\ ex_pc = "find" /\ ex_remaining = 0
    /\ container = NoContainer /\ apartments = <<>>
    /\ ScrollIdle /\ MainIdle /\ LoadIdle

NextExtract ==
    \/ ExtractFind /\ UNCHANGED <<scrollVars, mainVars, loadVars>>
    \/ ExtractNext /\ UNCHANGED <<scrollVars, mainVars, loadVars>>
    \/ ExtractReturn /\ UNCHANGED <<scrollVars, mainVars, loadVars>>

SpecExtract == InitExtract /\ [][NextExtract]_vars

\* load_existing_apartments and the first diff alone
InitLoad ==
    /\ load_pc = "start" /\ load_file \in LoadFiles
    /\ loaded = PyDict(EmptyMap) /\ load_current = <<>> /\ first_new = <<>>
    /\ ScrollIdle /\ ExtractIdle /\ MainIdle

NextLoad ==
    \/ Load /\ UNCHANGED <<scrollVars, extractVars, mainVars>>
    \/ FirstDiff /\ UNCHANGED <<scrollVars, extractVars, mainVars>>

SpecLoad == InitLoad /\ [][NextLoad]_vars

\* run and save_initial_apartments while no KeyboardInterrupt arrives and
\* nothing outside check_for_new_apartments raises: a sequential program,
\* whose next statement is always executed
NextLive ==
    \/ SetupDriver /\ UNCHANGED <<scrollVars, extractVars, loadVars>>
    \/ Navigate /\ UNCHANGED <<scrollVars, extractVars, loadVars>>
    \/ Scroll /\ UNCHANGED <<scrollVars, extractVars, loadVars>>
    \/ Extract /\ UNCHANGED <<scrollVars, extractVars, loadVars>>
    \/ Merge /\ UNCHANGED <<scrollVars, extractVars, loadVars>>
    \/ Save /\ UNCHANGED <<scrollVars, extractVars, loadVars>>
    \/ Notify /\ UNCHANGED <<scrollVars, extractVars, loadVars>>
    \/ Sleep /\ UNCHANGED <<scrollVars, extractVars, loadVars>>
    \/ Finally /\ UNCHANGED <<scrollVars, extractVars, loadVars>>

\* main choosing run (line 363) on a state file that holds one apartment
InitLive ==
    /\ Init
    /\ mode = "run"
    /\ apartments_file = Json([a \in {<<"A">>} |-> StoredApartment(a)])

SpecLive == InitLive /\ [][NextLive]_vars /\ WF_vars(NextLive)

(***************************************************************************)
(* Properties.                                                             *)
(***************************************************************************)
Sends == {"send_ok", "send_fail"}
SaveAttempts == {"save_ok", "save_fail"}

\* positions of current_apartments whose address was not known when the
\* cycle began
NewPositions ==
    {i \in DOMAIN current_apartments :
        current_apartments[i].address \notin DOMAIN cycle_known}

\* C1: after the diff of a check cycle, new_apartments is the subsequence of
\* current_apartments, in its order, of the records whose address was not a
\* key of the known apartments at the start of the cycle, and the keys of
\* the known apartments are exactly the addresses of current_apartments.
C1_NewItemsAndReplacement ==
    (mode = "run" /\ Did("merge")) =>
        /\ Len(new_apartments) = Cardinality(NewPositions)
        /\ \A i \in NewPositions :
            new_apartments[Cardinality({j \in NewPositions : j <= i})]
                = current_apartments[i]
        /\ DOMAIN known_apartments = Addresses(current_apartments)

C1_Witness ==
    /\ mode = "run" /\ Did("merge")
    /\ new_apartments # <<>>
    /\ Len(new_apartments) < Len(current_apartments)
    /\ DOMAIN cycle_known # DOMAIN known_apartments

\* C2: when the extraction of a check cycle or of a baseline save yields no
\* record, the known apartments and the state file are as they were at the
\* start, and the cycle neither merges, saves nor sends.
C2_EmptySnapshotGuard ==
    (Did("extract") /\ current_apartments = <<>>) =>
        /\ known_apartments = cycle_known
        /\ apartments_file = cycle_file
        /\ events = <<"extract">>

C2_Witness ==
    /\ Did("extract") /\ current_apartments = <<>>
    /\ containers_seen > 0
    /\ known_apartments # EmptyMap
    /\ pc \in {"sleep", "finally"}

\* C3: running the diff again on the same current_apartments with the merged
\* mapping as the known apartments reports nothing new and yields the same
\* keys.
C3_Idempotent ==
    (mode = "run" /\ Did("merge")) =>
        /\ NewApartments(current_apartments, known_apartments) = <<>>
        /\ DOMAIN UpdatedApartments(current_apartments, known_apartments)
               = DOMAIN known_apartments

C3_Witness ==
    /\ mode = "run" /\ Did("merge")
    /\ new_apartments # <<>>
    /\ Len(current_apartments) > 1

AllValid(records) ==
    \A i \in DOMAIN records :
        Truthy(records[i].address) /\ Truthy(records[i].price)

MapValid(m) ==
    \A a \in DOMAIN m : Truthy(m[a].address) /\ Truthy(m[a].price)

\* C4: no record with an empty or absent address or price is in the output
\* of extract_apartments, in the known apartments or in the state file.
C4_Validity ==
    /\ AllValid(current_apartments)
    /\ AllValid(new_apartments)
    /\ MapValid(known_apartments)
    /\ apartments_file.kind = "json" => MapValid(apartments_file.data)

C4_Witness ==
    /\ Did("save_ok")
    /\ containers_seen > Len(current_apartments)
    /\ apartments_file = Json(known_apartments)

Unresolved(read) == read \in {Raises, None, <<>>}

\* C5: every emitted record has a non-empty bedrooms, availability and url;
\* a container whose bedrooms (availability) read resolves to nothing gives
\* "Unknown", one whose link resolves to nothing gives STUYTOWN_URL.
C5_Fallback ==
    /\ \A i \in DOMAIN apartments :
        /\ Truthy(apartments[i].bedrooms)
        /\ Truthy(apartments[i].availability)
        /\ Truthy(apartments[i].url)
    /\ (container # NoContainer /\ ExtractContainer(container, clock) # <<>>) =>
        LET apt == apartments[Len(apartments)] IN
        /\ Unresolved(container.bedrooms) => apt.bedrooms = Unknown
        /\ Unresolved(container.availability) => apt.availability = Unknown
        /\ Unresolved(container.href) => apt.url = STUYTOWN_URL

\* C6: in a check cycle a delivery is attempted only after the save was
\* attempted; when a delivery fails, the known apartments and the file are
\* as the save left them, the delivery was attempted once, and, unless an
\* interrupt or a fault of the loop itself came afterwards, the cycle has
\* returned to the loop (test_email has returned) without an exception.
C6_DeliveryFailureNonFatal ==
    /\ mode = "run" =>
        \A j \in DOMAIN events :
            events[j] \in Sends =>
                \E i \in 1..(j - 1) : events[i] \in SaveAttempts
    /\ Did("send_fail") =>
        /\ known_apartments = saved_known
        /\ apartments_file = saved_file
        /\ Cardinality({j \in DOMAIN events : events[j] \in Sends}) = 1
        /\ ended_by = "none" =>
            /\ raising = "none"
            /\ IF mode = "run"
               THEN pc = "sleep" /\ result = "running"
               ELSE pc = "done" /\ result = "returned"

C6_Witness ==
    /\ Did("send_fail") /\ Did("save_ok")
    /\ pc = "sleep" /\ ended_by = "none"
    /\ apartments_file = Json(known_apartments)
    /\ known_apartments # cycle_known

\* C7: scroll_to_load_all performs at most 50 scroll-to-bottom iterations.
C7_AtMostFiftyScrolls == scroll_count <= ScrollCap

\* C8: the loop stops at the first re-measurement equal to the measurement
\* before it: below the cap it has stopped only if the two most recent
\* measurements are equal, it goes on only if they differ, nothing is issued
\* after the stop, and a re-measurement follows a scroll and the settle wait.
C8_StopsAtFirstEqual ==
    /\ (scroll_pc = "done" /\ scroll_count <= ScrollCap) =>
        last_measure = prev_measure
    /\ (scroll_pc \in {"scroll", "sleep", "measure"} /\ measures >= 2) =>
        last_measure # prev_measure
    /\ scroll_pc = "done" => since_measure = <<>>
    /\ scroll_pc = "measure" => since_measure = <<"scroll", "sleep">>
    /\ measures = IF scroll_pc = "start" THEN 0
                  ELSE IF scroll_pc \in {"scroll", "done"} THEN scroll_count + 1
                  ELSE IF scroll_pc = "raised" THEN measures
                  ELSE scroll_count

C8_Witness ==
    /\ scroll_pc = "done"
    /\ scroll_count > 2 /\ scroll_count <= ScrollCap
    /\ last_measure = prev_measure
    /\ last_height # 1

\* C9: an address known at the start of a cycle and absent from its
\* non-empty extraction is not known after the cycle, and an address that
\* was dropped and not extracted since is in new_apartments of the cycle
\* whose extraction has it again.
C9_DroppedThenNewAgain ==
    (mode = "run" /\ Did("merge")) =>
        /\ \A a \in DOMAIN cycle_known \ Addresses(current_apartments) :
            a \notin DOMAIN known_apartments
        /\ \A a \in dropped \cap Addresses(current_apartments) :
            \E i \in DOMAIN new_apartments : new_apartments[i].address = a

C9_Witness ==
    /\ mode = "run" /\ Did("merge")
    /\ dropped \cap Addresses(current_apartments) # {}
    /\ cycles >= 3

\* C10 as stated: run and save_initial_apartments never end with an
\* acquired session still open.
C10_SessionReleased ==
    (pc = "done" \/ result # "running") => driver # "open"

\* C10 amended: run and save_initial_apartments end with the acquired
\* session quit after an interrupt or a fault anywhere in the body of the
\* try or in a handler and after a normal return, provided driver.quit()
\* itself completes; a session is still open at the end only when
\* driver.quit() raised or was cut short by an interrupt, and then the
\* operation has raised that exception or KeyboardInterrupt.
C10_ReleasedUnlessQuitFails ==
    /\ (pc = "done" /\ ended_by \notin {"interrupt_finally", "quit_fail"}) =>
            driver # "open"
    /\ (pc = "done" /\ driver = "open") =>
            /\ result = "raised"
            /\ raising = (IF ended_by = "quit_fail" THEN "Exception"
                          ELSE "KeyboardInterrupt")
    /\ pc # "done" => result = "running"

C10_Witness ==
    /\ pc = "done" /\ driver = "quit"
    /\ result = "raised"
    /\ ended_by = "interrupt"
    /\ cycles >= 1


\* C11 as stated: when setup_driver fails at the start of run, run does not
\* return normally (the failure reaches its caller) and no cycle is executed.
C11_SetupFailurePropagates ==
    (mode = "run" /\ ended_by = "setup_fail" /\ pc = "done") =>
        /\ result = "raised"
        /\ cycles = 0

\* C11 amended: when setup_driver fails at the start of run, the failure is
\* caught in run: no cycle is executed, no session is held, and run returns
\* normally.
C11_SetupFailureCaught ==
    (mode = "run" /\ ended_by = "setup_fail") =>
        /\ cycles = 0 /\ events = <<>>
        /\ driver = "none"
        /\ raising = "none"
        /\ pc \in {"finally", "done"}
        /\ pc = "done" => result = "returned"

C11_Witness ==
    /\ mode = "run" /\ ended_by = "setup_fail"
    /\ pc = "done" /\ result = "returned"


\* C12: load_existing_apartments yields a mapping: the stored one when the
\* file holds a mapping, the empty one otherwise.
C12_LoadYieldsMapping ==
    load_pc \in {"loaded", "diffed"} =>
        /\ loaded.type = "dict"
        /\ loaded.value = IF load_file.kind = "json" THEN load_file.data
                          ELSE EmptyMap


\* C13: after any save attempt the state file holds the complete prior
\* content or the complete new mapping, never a cut-off one.
C13_SaveKeepsFileWhole ==
    /\ apartments_file.kind # "partial"
    /\ apartments_file \in {cycle_file, Json(known_apartments)}


\* C14: a cycle attempts a delivery exactly when new_apartments is not
\* empty (an empty batch without test_mode delivers nothing); the count of
\* the digest is the length of new_apartments and its body has one entry
\* per record, with the record's fields, in the order of new_apartments.
C14_DigestIffNew ==
    /\ ~Delivers(<<>>, FALSE)
    /\ Did("send_skip") => (new_apartments = <<>> /\ email = NoEmail)
    /\ (mode = "run" /\ (Did("send_ok") \/ Did("send_fail"))) =>
        /\ new_apartments # <<>>
        /\ email.count = Len(new_apartments)
        /\ Len(email.body) = Len(new_apartments)
        /\ \A i \in DOMAIN new_apartments :
            /\ email.body[i].address = new_apartments[i].address
            /\ email.body[i].price = new_apartments[i].price
            /\ email.body[i].bedrooms = Render(new_apartments[i].bedrooms)
            /\ email.body[i].discovered_at = new_apartments[i].discovered_at
            /\ email.body[i].url = Render(new_apartments[i].url)
    /\ (mode = "run" /\ pc = "sleep" /\ Did("merge")) =>
        (new_apartments # <<>> <=> (Did("send_ok") \/ Did("send_fail")))

C14_Witness ==
    /\ Did("send_ok")
    /\ Len(new_apartments) = 2
    /\ new_apartments[1] # new_apartments[2]
    /\ Len(current_apartments) = 2


\* the last position of current_apartments that holds address a
LastPosition(a) ==
    CHOOSE i \in DOMAIN current_apartments :
        /\ current_apartments[i].address = a
        /\ \A j \in DOMAIN current_apartments :
            j > i => current_apartments[j].address # a

\* C15: after the merge of a check cycle or of a baseline save, the record
\* stored under each address of current_apartments is the last record of
\* current_apartments with that address; duplicates are all emitted.
C15_LastWriteWins ==
    Did("merge") =>
        /\ DOMAIN known_apartments = Addresses(current_apartments)
        /\ \A a \in Addresses(current_apartments) :
            known_apartments[a] = current_apartments[LastPosition(a)]

C15_Witness ==
    /\ Did("merge")
    /\ Len(current_apartments) = 2
    /\ current_apartments[1].address = current_apartments[2].address
    /\ current_apartments[1] # current_apartments[2]
    /\ known_apartments[current_apartments[2].address] = current_apartments[2]


\* C16: each container visited by extract_apartments appends exactly one
\* record, with its address and price, at the end of the output when its
\* address read and its price read both yield a non-empty text, whatever
\* the other three reads do, and appends nothing otherwise; the records
\* appended before are kept.
C16_FaultIsolation ==
    [][ex_remaining' = ex_remaining - 1 =>
        IF ~Unresolved(container'.address) /\ ~Unresolved(container'.price)
        THEN /\ Len(apartments') = Len(apartments) + 1
             /\ SubSeq(apartments', 1, Len(apartments)) = apartments
             /\ apartments'[Len(apartments')].address = container'.address
             /\ apartments'[Len(apartments')].price = container'.price
        ELSE apartments' = apartments]_vars

C16_Witness ==
    /\ container.bedrooms = Raises
    /\ container.availability = Raises
    /\ container.href = Raises
    /\ ~Unresolved(container.address) /\ ~Unresolved(container.price)
    /\ Len(apartments) = 2
    /\ apartments[2].address = container.address
    /\ apartments[2].bedrooms = Unknown
    /\ apartments[1].address # container.address


\* C17: after the merge of a cycle every record of the known apartments
\* carries the time of that cycle's extraction, later than the time of any
\* record known before, also under an address that was already known.
C17_Restamped ==
    Did("merge") =>
        \A a \in DOMAIN known_apartments :
            /\ known_apartments[a].discovered_at = clock
            /\ \A b \in DOMAIN cycle_known :
                cycle_known[b].discovered_at < known_apartments[a].discovered_at

C17_Witness ==
    /\ mode = "run" /\ Did("merge")
    /\ \E a \in DOMAIN cycle_known \cap DOMAIN known_apartments :
        /\ cycle_known[a].discovered_at >= 1
        /\ known_apartments[a].discovered_at > cycle_known[a].discovered_at
        /\ new_apartments = <<>>


\* the order of the statements of one cycle
Rank(at) ==
    CASE at = "get" -> 1 [] at = "scroll" -> 2 [] at = "extract" -> 3
      [] at = "merge" -> 4 [] at = "save" -> 5 [] at = "notify" -> 6
      [] at = "sleep" -> 7 [] OTHER -> 8

\* C18: while no interrupt arrives, every cycle of run, whether it
\* completes, skips or hits a caught fault, is followed by the next cycle:
\* from the start of the first cycle the run reaches the sleep of cycle
\* MaxCycles, and the cycle count only grows by one, from the sleep (or the
\* setup) into the first statement of a cycle, so no cycle begins while
\* another is running; within a cycle the statements only move forward (no
\* step is taken twice).
C18_NextCycleFollows ==
    /\ (mode = "run" /\ cycles = 1 /\ pc = "get") ~>
            (cycles = MaxCycles /\ pc = "sleep")
    /\ [][cycles' # cycles =>
            /\ pc \in {"setup", "sleep"}
            /\ pc' = "get"
            /\ cycles' = cycles + 1]_vars
    /\ [][(cycles' = cycles /\ pc' # pc /\ Rank(pc) < 8) =>
            Rank(pc') > Rank(pc)]_vars

C18_Witness ==
    /\ mode = "run" /\ pc = "get"
    /\ cycles >= 3
    /\ save_failed
    /\ undelivered # {}


\* the known apartments a process started on the file would load
OnDisk == LoadExistingApartments(apartments_file).value

\* C19: after a successful save the file holds exactly the known
\* apartments; a cycle that skips or faults before the merge changes neither
\* the file nor the known apartments, so at every cycle boundary before the
\* first failed save what the file loads to equals the known apartments; in
\* a cycle whose save failed the known apartments are the merged ones, the
\* file loads to something else, and the notification for a non-empty
\* new_apartments has still been attempted by the end of the cycle.
C19_MemoryDiskAgree ==
    /\ Did("save_ok") =>
            /\ apartments_file = Json(known_apartments)
            /\ OnDisk = known_apartments
    /\ (pc \in {"get", "scroll", "extract", "merge", "sleep"} /\ ~Did("merge")) =>
            /\ known_apartments = cycle_known
            /\ apartments_file = cycle_file
    /\ (pc = "sleep" /\ ~save_failed) => OnDisk = known_apartments
    /\ Did("save_fail") =>
            /\ known_apartments = UpdatedApartments(current_apartments, cycle_known)
            /\ OnDisk # known_apartments
    /\ (mode = "run" /\ pc = "sleep" /\ Did("save_fail") /\ new_apartments # <<>>) =>
            /\ Did("send_ok") \/ Did("send_fail")
            /\ email = Digest(new_apartments)

C19_Witness ==
    /\ mode = "run" /\ pc = "sleep" /\ cycles >= 2
    /\ Did("save_fail") /\ Did("send_ok")
    /\ apartments_file = cycle_file
    /\ cycle_file = Json(cycle_known)
    /\ cycle_known # EmptyMap


\* C20: within one run, an address that was in new_apartments of a cycle is
\* not in new_apartments of a later cycle as long as every merged extraction
\* in between (and this one) contains it, whether or not the delivery of
\* its notification succeeded.  reported holds the addresses put in
\* new_apartments since they were last missing from a merged extraction,
\* undelivered those among them whose delivery failed.
C20_ReportedOnceWhilePresent ==
    (mode = "run" /\ Did("merge")) =>
        /\ Addresses(new_apartments) \cap reported = {}
        /\ Addresses(new_apartments) \cap undelivered = {}
        /\ (reported \cap Addresses(current_apartments)) \subseteq DOMAIN cycle_known

C20_Witness ==
    /\ mode = "run" /\ Did("merge") /\ cycles >= 3
    /\ undelivered \cap Addresses(current_apartments) # {}
    /\ new_apartments # <<>>

=============================================================================
